---- MODULE Spec2Model ----
(***************************************************************************)
(* pdf_to_text: the refinement driver (app.py) turns every page of a PDF   *)
(* into markdown through OCR and a chain of completion calls; the          *)
(* translation driver (translate.py) translates every markdown file of    *)
(* the output directory.  Texts are sequences of string tokens, files are  *)
(* records [kind, data], paths are pairs <<directory, file name>> and a    *)
(* file name is a sequence of tokens ("page", "_", "1", ".", "md").        *)
(***************************************************************************)
EXTENDS Naturals, Sequences, FiniteSets, TLC

\* Largest number of pages convert_from_path yields.
MaxPages == 2

VARIABLES
    fs,        \* the file system: path -> [kind, data]
    configured_K, \* the number of feedback rounds the operator asks for
    app_pc,    \* position of app.main
    images,    \* app.main: the page images convert_from_path returned
    i,         \* app.main: the loop index (0-based, as enumerate)
    pp,        \* the frame of the running process_page call
    calls,     \* external calls issued by the current process_page call
    outcome,   \* per page: how its process_page call ended
    errlog,    \* what logger.error recorded: pairs <<path, kind of error>>
    tr_pc,     \* position of translate.main
    todo,      \* translate.main: entries of os.listdir not yet visited
    tc,        \* the frame of the running process_content call
    tr_calls,  \* completion requests issued by the current process_content call
    tr_outcome,\* per directory entry: how its visit ended
    tr_written \* pairs <<output path, entry>>: which entry wrote which translation

app_vars == <<app_pc, images, i, pp, calls, outcome>>
tr_vars == <<tr_pc, todo, tc, tr_calls, tr_outcome, tr_written>>
vars == <<fs, configured_K, errlog, app_vars, tr_vars>>

----------------------------------------------------------------------------
(* Values *)

\* str(i + 1) for the page numbers in use.
Digits == <<"1", "2", "3", "4">>

\* The rasters convert_from_path yields, page by page.
ImgData == <<"img1", "img2", "img3", "img4">>

\* What pytesseract.image_to_string may return: nothing or some text.
OcrTexts == {<<>>, <<"Hello">>}

\* What a completion may return: empty text, or raw text the formatter changes.
Responses == {<<>>, <<"raw">>}

\* image_path = None (the default of prepare_messages and feedback_loop).
None == <<"None", <<>>>>

images_path == "images"
markdowns_path == "markdowns"

PageFile(k, ext) == <<"page", "_", Digits[k], ".", ext>>

File(d) == [kind |-> "file", data |-> d]
Dir == [kind |-> "dir", data |-> <<>>]
Absent == [kind |-> "absent", data |-> <<>>]

\* What is at path p: a file, a directory, or nothing.
At(p) == IF p \in DOMAIN fs THEN fs[p] ELSE Absent

IsFile(p) == p \in DOMAIN fs /\ fs[p].kind = "file"

\* open(p, "w") followed by a complete write of d, or any other store of d at p.
Store(f, p, d) == [q \in DOMAIN f \cup {p} |-> IF q = p THEN d ELSE f[q]]

----------------------------------------------------------------------------
(* processor/image.py, processor/text.py *)

\* base64.b64encode(data).decode(): token by token.
b64encode(data) == [k \in 1..Len(data) |-> "b64(" \o data[k] \o ")"]

encode_image_to_base64(image_path) == b64encode(fs[image_path].data)

\* The markdown post-formatter: raw model output becomes canonical markdown,
\* canonical markdown is left as it is.
format_markdown(text) ==
    [k \in 1..Len(text) |-> IF text[k] = "raw" THEN "canon" ELSE text[k]]

----------------------------------------------------------------------------
(* app.py: the message builder and the prompts *)

TextMsg(role, text) == [role |-> role, type |-> "text", content |-> text]
ImageMsg(role, b64) ==
    [role |-> role, type |-> "image_url",
     content |-> <<"data:image/jpeg;base64,">> \o b64]

\* A builder that puts the image between the prompt and the content.
prepare_messagesImageSecond(prompt, content, image_path) ==
    IF image_path # None
    THEN <<TextMsg("user", prompt),
           ImageMsg("user", encode_image_to_base64(image_path)),
           TextMsg("user", content)>>
    ELSE <<TextMsg("user", prompt), TextMsg("user", content)>>

prepare_messages(prompt, content, image_path) ==
    LET messages == <<TextMsg("user", prompt), TextMsg("user", content)>>
    IN  IF image_path # None
        THEN Append(messages, ImageMsg("user", encode_image_to_base64(image_path)))
        ELSE messages

\* prepare_messages raises when the image cannot be read.
CanPrepare(image_path) == image_path = None \/ IsFile(image_path)

\* The OCR text handed on as it is, without its label.
CombinedTextOcrOnly(ocr_text) == ocr_text

\* combined_text = f"OCR Text:\n{ocr_text}"
CombinedText(ocr_text) == <<"OCR Text:\n">> \o ocr_text

InitialPrompt == <<"Convert the following text to markdown format">>

FeedbackPrompt(original_text, markdown) ==
    <<"Compare the original text with the markdown conversion", "Original text:">>
        \o original_text \o <<"Current markdown:">> \o markdown

ImprovePrompt(feedback, markdown) ==
    <<"Using the following feedback, improve the markdown conversion:">>
        \o feedback \o <<"Current markdown:">> \o markdown

FinalPrompt(optimized_markdown) ==
    <<"Based on the following optimized markdown, create a final version",
      "Optimized markdown:">> \o optimized_markdown \o <<"---", "REMEMBER">>

\* for i in range(1): the number of feedback rounds.
FeedbackRounds == 1

\* The image feedback_loop is given by process_page: the argument is left out.
FeedbackImage(image_path) == None

----------------------------------------------------------------------------
(* app.py: process_page *)

Idle ==
    [pc |-> "idle", page |-> 0, image_path |-> None, output_path |-> None,
     ocr_text |-> <<>>, combined_text |-> <<>>, initial_markdown |-> <<>>,
     improved_markdown |-> <<>>, fb_i |-> 0, feedback |-> <<>>,
     final_version |-> <<>>, formatted |-> <<>>, ret |-> <<>>,
     error |-> "none", pre |-> Absent]

\* One external call as the service sees it: the function, the stage of the
\* pipeline it belongs to, the arguments given to the message builder, the
\* messages sent and the text returned.
Call(fn, stage, args, messages, response) ==
    [fn |-> fn, stage |-> stage, args |-> args, messages |-> messages,
     response |-> response]

NoArgs == <<<<>>, <<>>, None>>

\* groq_completion(prepare_messages(prompt, content, image_path)) returning r
Completion(stage, prompt, content, image_path, r) ==
    Call("groq_completion", stage, <<prompt, content, image_path>>,
         prepare_messages(prompt, content, image_path), r)

\* The kind of error a stage raises: extraction, completion service, persistence.
ErrorKind(stage) ==
    IF stage = "ocr" THEN "ExtractionError"
    ELSE IF stage \in {"initial", "fb_gen", "fb_apply", "final", "translate"}
         THEN "ServiceError"
         ELSE "PersistenceError"


\* A finalization that is given the initial conversion.
FinalInputInitial == pp.initial_markdown

\* The markdown create_final_version is given: the result of the feedback rounds.
FinalInput == pp.improved_markdown

\* The path of the markdown of the page at loop index k.
OutputPathOf(k) == <<markdowns_path, PageFile(k + 1, "md")>>

\* A loop that stops at the first page whose call returned the empty result.
LoopTestStopsOnFailure(k, n) ==
    IF k < n /\ (k = 0 \/ outcome[k] = "Finalized") THEN "save" ELSE "done"

\* for i, image in enumerate(images): the loop goes on whatever the call returned.
LoopTest(k, n) == IF k < n THEN "save" ELSE "done"

\* The statements of the try block an exception can come out of.
Failable == {"ocr", "initial", "fb_gen", "fb_apply", "final", "open", "format", "write"}

\* A handler that catches the errors of the services only.
HandlerServiceErrorsOnly(stage) ==
    IF ErrorKind(stage) = "PersistenceError" THEN "escaped" ELSE "except"

\* A handler that swallows a failure of a feedback stage and goes on to the
\* finalization with the markdown it has.
HandlerSkipsFeedback(stage) ==
    IF stage \in {"fb_gen", "fb_apply"} THEN "final" ELSE "except"

\* Where an exception raised inside the try block of process_page goes:
\* except Exception catches every one of them.
Handler(stage) == "except"

\* A feedback loop that makes no round.
AfterRoundNoRound(k) == "final"

\* A feedback loop that makes two rounds.
AfterRoundTwice(k) == IF k < 2 THEN "fb_gen" ELSE "final"

\* for i in range(1): the loop test before round k (0-based).
AfterRound(k) == IF k < FeedbackRounds THEN "fb_gen" ELSE "final"

\* ocr_text = ocr_image(image_path); combined_text = f"OCR Text:\n{ocr_text}"
Ocr ==
    /\ pp.pc = "ocr"
    /\ IsFile(pp.image_path)
    /\ \E t \in OcrTexts :
          /\ pp' = [pp EXCEPT !.ocr_text = t, !.combined_text = CombinedText(t),
                              !.pc = "initial"]
          /\ calls' = Append(calls, Call("ocr_image", "ocr", NoArgs, <<>>, t))
    /\ UNCHANGED <<configured_K, fs, app_pc, images, i, outcome, errlog, tr_vars>>

\* initial_markdown = initial_markdown_conversion(combined_text, image_path)
\* improved_markdown = initial_markdown, and the loop test of range(1).
InitialConversion ==
    /\ pp.pc = "initial"
    /\ CanPrepare(pp.image_path)
    /\ \E r \in Responses :
          /\ pp' = [pp EXCEPT !.initial_markdown = r, !.improved_markdown = r,
                              !.fb_i = 0, !.pc = AfterRound(0)]
          /\ calls' = Append(calls, Completion("initial", InitialPrompt,
                                               pp.combined_text, pp.image_path, r))
    /\ UNCHANGED <<configured_K, fs, app_pc, images, i, outcome, errlog, tr_vars>>

\* feedback_loop, first half: feedback = groq_completion(...)
GenerateFeedback ==
    /\ pp.pc = "fb_gen"
    /\ \E r \in Responses :
          /\ pp' = [pp EXCEPT !.feedback = r, !.pc = "fb_apply"]
          /\ calls' = Append(calls, Completion("fb_gen",
                            FeedbackPrompt(pp.combined_text, pp.improved_markdown),
                            <<"Provide feedback for improvement">>, None, r))
    /\ UNCHANGED <<configured_K, fs, app_pc, images, i, outcome, errlog, tr_vars>>

\* feedback_loop, second half: return groq_completion(...), assigned to
\* improved_markdown, and the loop test.
ApplyFeedback ==
    /\ pp.pc = "fb_apply"
    /\ CanPrepare(FeedbackImage(pp.image_path))
    /\ \E r \in Responses :
          /\ pp' = [pp EXCEPT !.improved_markdown = r, !.fb_i = @ + 1,
                              !.pc = AfterRound(pp.fb_i + 1)]
          /\ calls' = Append(calls, Completion("fb_apply",
                            ImprovePrompt(pp.feedback, pp.improved_markdown),
                            <<"Improve the markdown based on feedback">>,
                            FeedbackImage(pp.image_path), r))
    /\ UNCHANGED <<configured_K, fs, app_pc, images, i, outcome, errlog, tr_vars>>

\* final_version = create_final_version(improved_markdown, image_path)
CreateFinalVersion ==
    /\ pp.pc = "final"
    /\ CanPrepare(pp.image_path)
    /\ \E r \in Responses :
          /\ pp' = [pp EXCEPT !.final_version = r, !.pc = "open"]
          /\ calls' = Append(calls, Completion("final", FinalPrompt(FinalInput),
                                               <<"Create final version">>,
                                               pp.image_path, r))
    /\ UNCHANGED <<configured_K, fs, app_pc, images, i, outcome, errlog, tr_vars>>

\* with open(output_path, "w") as f: the file is created or truncated.
OpenOutput ==
    /\ pp.pc = "open"
    /\ At(pp.output_path).kind # "dir"
    /\ fs' = Store(fs, pp.output_path, File(<<>>))
    /\ pp' = [pp EXCEPT !.pc = "format"]
    /\ UNCHANGED <<configured_K, app_pc, images, i, calls, outcome, errlog, tr_vars>>

\* formatted_final_version = format_markdown(final_version)
Format ==
    /\ pp.pc = "format"
    /\ pp' = [pp EXCEPT !.formatted = format_markdown(pp.final_version), !.pc = "write"]
    /\ UNCHANGED <<configured_K, fs, app_pc, images, i, calls, outcome, errlog, tr_vars>>

\* f.write(formatted_final_version), the file is closed; return final_version
WriteAndReturn ==
    /\ pp.pc = "write"
    /\ fs' = Store(fs, pp.output_path, File(pp.formatted))
    /\ calls' = Append(calls, Call("write", "write", NoArgs, <<>>, pp.formatted))
    /\ pp' = [pp EXCEPT !.ret = pp.final_version, !.pc = "returned"]
    /\ outcome' = [outcome EXCEPT ![pp.page] = "Finalized"]
    /\ UNCHANGED <<configured_K, app_pc, images, i, errlog, tr_vars>>

\* Any statement of the try block raises: OCR, a completion call (or the
\* reading of the image for it), open, the formatter, the write.
Raise ==
    /\ pp.pc \in Failable
    /\ pp' = [pp EXCEPT !.error = pp.pc, !.pc = Handler(pp.pc)]
    /\ UNCHANGED <<configured_K, fs, app_pc, images, i, calls, outcome, errlog, tr_vars>>

\* except Exception as error: logger.error(...); return ""
Except ==
    /\ pp.pc = "except"
    /\ errlog' = errlog \cup {<<pp.image_path, ErrorKind(pp.error)>>}
    /\ pp' = [pp EXCEPT !.ret = <<>>, !.pc = "returned"]
    /\ outcome' = [outcome EXCEPT ![pp.page] = "Failed"]
    /\ UNCHANGED <<configured_K, fs, app_pc, images, i, calls, tr_vars>>

----------------------------------------------------------------------------
(* app.py: main *)

\* images = convert_from_path(file_path, output_folder=images_path)
Convert ==
    /\ app_pc = "convert"
    /\ \E n \in 1..MaxPages : images' = SubSeq(ImgData, 1, n)
    /\ app_pc' = LoopTest(0, Len(images'))
    /\ UNCHANGED <<configured_K, fs, i, pp, calls, outcome, errlog, tr_vars>>

\* convert_from_path raises: nothing in main catches it.
ConvertFails ==
    /\ app_pc = "convert"
    /\ app_pc' = "crashed"
    /\ UNCHANGED <<configured_K, fs, images, i, pp, calls, outcome, errlog, tr_vars>>

\* image.save(image_path, "PNG")
SaveImage ==
    /\ app_pc = "save"
    /\ fs' = Store(fs, <<images_path, PageFile(i + 1, "png")>>, File(<<images[i + 1]>>))
    /\ app_pc' = "call"
    /\ UNCHANGED <<configured_K, images, i, pp, calls, outcome, errlog, tr_vars>>

\* image.save raises: nothing in main catches it.
SaveImageFails ==
    /\ app_pc = "save"
    /\ app_pc' = "crashed"
    /\ UNCHANGED <<configured_K, fs, images, i, pp, calls, outcome, errlog, tr_vars>>

\* process_page(image_path, output_path) is entered.
CallProcessPage ==
    /\ app_pc = "call"
    /\ LET output_path == OutputPathOf(i)
       IN  pp' = [Idle EXCEPT !.pc = "ocr", !.page = i + 1,
                      !.image_path = <<images_path, PageFile(i + 1, "png")>>,
                      !.output_path = output_path,
                      !.pre = At(output_path)]
    /\ calls' = <<>>
    /\ app_pc' = "running"
    /\ UNCHANGED <<configured_K, fs, images, i, outcome, errlog, tr_vars>>

\* process_page has returned (its value is dropped); next round of the loop.
NextPage ==
    /\ app_pc = "running"
    /\ pp.pc = "returned"
    /\ i' = i + 1
    /\ app_pc' = LoopTest(i + 1, Len(images))
    /\ pp' = Idle
    /\ calls' = <<>>
    /\ UNCHANGED <<configured_K, fs, images, outcome, errlog, tr_vars>>

----------------------------------------------------------------------------
(* translate.py: the message builder *)

\* Translations written into the directory the markdowns are read from.
translations_pathIsInput == markdowns_path

\* translations_dir = f"{data}/{file_name.split('.')[0]}/translations"
translations_path == "translations"
target_language == "English"

SystemPrompt == <<"You are a professional translator.", "**Translator Instructions**">>

TranslatePrompt(language) ==
    <<"Translate the following text to", language, "preserving all formatting and structure">>

\* A builder that sends the system instruction and the content only, with
\* no user message for the prompt.
tr_prepare_messagesNoPrompt(prompt, content, image_path) ==
    LET messages == <<TextMsg("system", SystemPrompt), TextMsg("user", content)>>
    IN  IF image_path # None
        THEN Append(messages, ImageMsg("user", encode_image_to_base64(image_path)))
        ELSE messages

\* translate.py prepare_messages: system instruction, user prompt, user
\* content, and the image when image_path is given.
tr_prepare_messages(prompt, content, image_path) ==
    LET messages == <<TextMsg("system", SystemPrompt), TextMsg("user", prompt),
                      TextMsg("user", content)>>
    IN  IF image_path # None
        THEN Append(messages, ImageMsg("user", encode_image_to_base64(image_path)))
        ELSE messages

\* str.split(sep) on a name: the pieces between the occurrences of sep.
RECURSIVE split(_, _)
split(s, sep) ==
    IF \E k \in 1..Len(s) : s[k] = sep
    THEN LET k == CHOOSE k \in 1..Len(s) : s[k] = sep /\ \A j \in 1..(k - 1) : s[j] # sep
         IN  <<SubSeq(s, 1, k - 1)>> \o split(SubSeq(s, k + 1, Len(s)), sep)
    ELSE <<s>>

\* filename.replace(".md", ".png")
RECURSIVE replace_md_png(_)
replace_md_png(s) ==
    IF s = <<>> THEN <<>>
    ELSE IF Len(s) >= 2 /\ s[1] = "." /\ s[2] = "md"
         THEN <<".", "png">> \o replace_md_png(SubSeq(s, 3, Len(s)))
         ELSE <<s[1]>> \o replace_md_png(Tail(s))

\* filename.split("_")[1] raises IndexError when the name has no "_".
Parses(filename) == Len(split(filename, "_")) >= 2

\* page_number = filename.split("_")[1].split(".")[0]
page_number(filename) == split(split(filename, "_")[2], ".")[1]

\* output_path = f"{translations_dir}/page_{page_number}.md"
OutputPath(filename) ==
    <<translations_path, <<"page", "_">> \o page_number(filename) \o <<".", "md">>>>

----------------------------------------------------------------------------
(* translate.py: process_content *)

TrIdle ==
    [pc |-> "idle", filename |-> <<>>, text_file_path |-> None,
     image_file_path |-> None, output_path |-> None, content |-> <<>>,
     translated_content |-> <<>>, formatted |-> <<>>, ret |-> <<>>,
     error |-> "none", pre |-> Absent, md_before |-> Absent]

TrFailable == {"read", "translate", "open", "format", "write"}

\* Where an exception raised inside the try block of process_content goes.
TrHandler(stage) == "except"

\* with open(text_file_path, "r") as f: content = f.read()
ReadContent ==
    /\ tc.pc = "read"
    /\ IsFile(tc.text_file_path)
    /\ tc' = [tc EXCEPT !.content = fs[tc.text_file_path].data, !.pc = "translate"]
    /\ UNCHANGED <<configured_K, fs, errlog, app_vars, tr_pc, todo, tr_calls, tr_outcome, tr_written>>

\* translated_content = translate_text(content, image_file_path, target_language)
TranslateText ==
    /\ tc.pc = "translate"
    /\ IsFile(tc.image_file_path)
    /\ \E r \in Responses :
          /\ tc' = [tc EXCEPT !.translated_content = r, !.pc = "open"]
          /\ tr_calls' = Append(tr_calls,
                Call("groq_completion", "translate",
                     <<TranslatePrompt(target_language), tc.content, tc.image_file_path>>,
                     tr_prepare_messages(TranslatePrompt(target_language), tc.content,
                                         tc.image_file_path), r))
    /\ UNCHANGED <<configured_K, fs, errlog, app_vars, tr_pc, todo, tr_outcome, tr_written>>

\* with open(output_path, "w") as f: the file is created or truncated.
TrOpenOutput ==
    /\ tc.pc = "open"
    /\ At(tc.output_path).kind # "dir"
    /\ fs' = Store(fs, tc.output_path, File(<<>>))
    /\ tc' = [tc EXCEPT !.pc = "format"]
    /\ UNCHANGED <<configured_K, errlog, app_vars, tr_pc, todo, tr_calls, tr_outcome, tr_written>>

\* formatted_content = format_markdown(translated_content)
TrFormat ==
    /\ tc.pc = "format"
    /\ tc' = [tc EXCEPT !.formatted = format_markdown(tc.translated_content), !.pc = "write"]
    /\ UNCHANGED <<configured_K, fs, errlog, app_vars, tr_pc, todo, tr_calls, tr_outcome, tr_written>>

\* f.write(formatted_content), the file is closed; return translated_content
TrWriteAndReturn ==
    /\ tc.pc = "write"
    /\ fs' = Store(fs, tc.output_path, File(tc.formatted))
    /\ tc' = [tc EXCEPT !.ret = tc.translated_content, !.pc = "returned"]
    /\ tr_outcome' = [tr_outcome EXCEPT ![tc.filename] = "Translated"]
    /\ tr_written' = tr_written \cup {<<tc.output_path, tc.filename>>}
    /\ UNCHANGED <<configured_K, errlog, app_vars, tr_pc, todo, tr_calls>>

\* Any statement of the try block raises: the read, the completion call (or
\* the reading of the image for it), open, the formatter, the write.
TrRaise ==
    /\ tc.pc \in TrFailable
    /\ tc' = [tc EXCEPT !.error = tc.pc, !.pc = TrHandler(tc.pc)]
    /\ UNCHANGED <<configured_K, fs, errlog, app_vars, tr_pc, todo, tr_calls, tr_outcome, tr_written>>

\* except Exception as error: logger.error(...); return ""
TrExcept ==
    /\ tc.pc = "except"
    /\ errlog' = errlog \cup {<<tc.text_file_path, ErrorKind(tc.error)>>}
    /\ tc' = [tc EXCEPT !.ret = <<>>, !.pc = "returned"]
    /\ tr_outcome' = [tr_outcome EXCEPT ![tc.filename] = "Failed"]
    /\ UNCHANGED <<configured_K, fs, app_vars, tr_pc, todo, tr_calls, tr_written>>

----------------------------------------------------------------------------
(* translate.py: main *)

Listing(dir) == {p[2] : p \in {q \in DOMAIN fs : q[1] = dir}}

\* The translation driver is started once the refinement driver has ended:
\* os.makedirs(translations_dir); os.listdir(text_input_dir)
ListDir ==
    /\ tr_pc = "start"
    /\ app_pc \in {"done", "crashed"}
    /\ todo' = Listing(markdowns_path)
    /\ tr_outcome' = [f \in Listing(markdowns_path) |-> "none"]
    /\ tr_pc' = "loop"
    /\ UNCHANGED <<configured_K, fs, errlog, app_vars, tc, tr_calls, tr_written>>

\* The next entry, in whatever order os.listdir gives them: its name does
\* not split, and nothing in main catches the IndexError.
ParseFails ==
    /\ tr_pc = "loop"
    /\ \E filename \in todo :
          /\ ~Parses(filename)
          /\ tr_outcome' = [tr_outcome EXCEPT ![filename] = "Crashed"]
    /\ tr_pc' = "crashed"
    /\ UNCHANGED <<configured_K, fs, errlog, app_vars, todo, tc, tr_calls, tr_written>>

\* if os.path.isdir(text_file_path): continue
SkipDirectory ==
    /\ tr_pc = "loop"
    /\ \E filename \in todo :
          /\ Parses(filename)
          /\ fs[<<markdowns_path, filename>>].kind = "dir"
          /\ todo' = todo \ {filename}
          /\ tr_outcome' = [tr_outcome EXCEPT ![filename] = "Skipped"]
    /\ UNCHANGED <<configured_K, fs, errlog, app_vars, tr_pc, tc, tr_calls, tr_written>>

\* process_content(text_file_path, image_file_path, output_path, target_language)
CallProcessContent ==
    /\ tr_pc = "loop"
    /\ \E filename \in todo :
          /\ Parses(filename)
          /\ fs[<<markdowns_path, filename>>].kind # "dir"
          /\ todo' = todo \ {filename}
          /\ LET text_file_path == <<markdowns_path, filename>>
                 output_path == OutputPath(filename)
             IN  tc' = [TrIdle EXCEPT !.pc = "read", !.filename = filename,
                            !.text_file_path = text_file_path,
                            !.image_file_path = <<images_path, replace_md_png(filename)>>,
                            !.output_path = output_path,
                            !.pre = At(output_path),
                            !.md_before = fs[text_file_path]]
    /\ tr_calls' = <<>>
    /\ tr_pc' = "running"
    /\ UNCHANGED <<configured_K, fs, errlog, app_vars, tr_outcome, tr_written>>

\* process_content has returned (its value is dropped); next round of the loop.
NextEntry ==
    /\ tr_pc = "running"
    /\ tc.pc = "returned"
    /\ tr_pc' = "loop"
    /\ tc' = TrIdle
    /\ tr_calls' = <<>>
    /\ UNCHANGED <<configured_K, fs, errlog, app_vars, todo, tr_outcome, tr_written>>

\* The listing is exhausted: logger.info("Translation process complete")
TranslationComplete ==
    /\ tr_pc = "loop"
    /\ todo = {}
    /\ tr_pc' = "done"
    /\ UNCHANGED <<configured_K, fs, errlog, app_vars, todo, tc, tr_calls, tr_outcome, tr_written>>

----------------------------------------------------------------------------
(* The directories as the drivers find them *)

\* What an earlier run or the user may have left in the data directory:
\* nothing, the markdown of page 1, that markdown and a file whose name has
\* no "_", a directory, or a copy of a page with its image.
PreExisting ==
    { {},
      {<<<<markdowns_path, PageFile(1, "md")>>, File(<<"Old">>)>>},
      {<<<<markdowns_path, PageFile(1, "md")>>, File(<<"Old">>)>>,
       <<<<markdowns_path, <<"notes", ".", "txt">>>>, File(<<"Note">>)>>},
      {<<<<markdowns_path, <<"old", "_", "1">>>>, Dir>>},
      {<<<<markdowns_path, <<"copy", "_", "1", ".", "md">>>>, File(<<"Copy">>)>>,
       <<<<images_path, <<"copy", "_", "1", ".", "png">>>>, File(<<"imgc">>)>>} }

\* The numbers of feedback rounds an operator may want: none, or one. Nothing
\* in app.py reads a configuration: the loop is range(1) whatever is asked.
ConfiguredRounds == {0, FeedbackRounds}

InitialFS ==
    { [p \in {e[1] : e \in pairs} |-> (CHOOSE e \in pairs : e[1] = p)[2]]
      : pairs \in PreExisting }

Init ==
    /\ fs \in InitialFS
    /\ configured_K \in ConfiguredRounds
    /\ app_pc = "convert"
    /\ images = <<>>
    /\ i = 0
    /\ pp = Idle
    /\ calls = <<>>
    /\ outcome = [k \in 1..MaxPages |-> "none"]
    /\ errlog = {}
    /\ tr_pc = "start"
    /\ todo = {}
    /\ tc = TrIdle
    /\ tr_calls = <<>>
    /\ tr_outcome = [f \in {} |-> "none"]
    /\ tr_written = {}

AppNext ==
    \/ Convert
    \/ ConvertFails
    \/ SaveImage
    \/ SaveImageFails
    \/ CallProcessPage
    \/ NextPage
    \/ Ocr
    \/ InitialConversion
    \/ GenerateFeedback
    \/ ApplyFeedback
    \/ CreateFinalVersion
    \/ OpenOutput
    \/ Format
    \/ WriteAndReturn
    \/ Raise
    \/ Except

TrNext ==
    \/ ListDir
    \/ ParseFails
    \/ SkipDirectory
    \/ CallProcessContent
    \/ NextEntry
    \/ TranslationComplete
    \/ ReadContent
    \/ TranslateText
    \/ TrOpenOutput
    \/ TrFormat
    \/ TrWriteAndReturn
    \/ TrRaise
    \/ TrExcept

Next == AppNext \/ TrNext

Spec == Init /\ [][Next]_vars

\* The refinement driver alone; it is a sequential program, and a step it
\* can take it does take.
RefineSpec == Init /\ [][AppNext]_vars /\ WF_vars(AppNext)

----------------------------------------------------------------------------
(* Properties of process_page and of the refinement driver *)

\* C1: a call of process_page always ends, whichever step fails in it (OCR, a
\* completion call, the formatter, the write): it returns to main with the
\* page Finalized or Failed, and no exception leaves it.
C1_ProcessPageReturns ==
    (pp.pc \in Failable)
        ~> (pp.pc = "returned" /\ outcome[pp.page] \in {"Finalized", "Failed"})

\* A page whose write raised has returned to main as Failed.
C1_Witness ==
    /\ pp.pc = "returned"
    /\ pp.error = "write"
    /\ outcome[pp.page] = "Failed"

\* The paths of page k, as the drivers name them.
ImagePath(k) == <<images_path, PageFile(k, "png")>>
PagePath(k) == <<markdowns_path, PageFile(k, "md")>>

\* logger.error was called for page k.
Logged(k) == \E e \in errlog : e[1] = ImagePath(k)
ServiceFailed(k) ==
    \E e \in errlog : e[1] = ImagePath(k) /\ e[2] \in {"ServiceError", "ExtractionError"}

\* C2: page isolation. Pages are processed in order; a failure on a page
\* does not stop the loop, so a driver that has ended its loop has run
\* process_page on every page; and every page on which nothing failed is
\* Finalized with its markdown persisted at its own page_<k>.md.
C2_PageIsolation ==
    /\ \A k \in 1..MaxPages : outcome[k] # "none" => k <= i + 1
    /\ \A k \in 1..i : outcome[k] # "none"
    /\ pp.pc # "idle" => pp.page = i + 1
    /\ app_pc = "done" =>
          \A k \in 1..Len(images) :
              /\ outcome[k] # "none"
              /\ ~Logged(k) => outcome[k] = "Finalized" /\ IsFile(PagePath(k))
    /\ (pp.pc = "returned" /\ pp.error = "none") =>
          /\ outcome[pp.page] = "Finalized"
          /\ fs[PagePath(pp.page)] = File(format_markdown(pp.final_version))

\* A two-page run has ended; a service call failed on page 1 and page 2 is
\* Finalized with its markdown in place.
C2_Witness ==
    /\ app_pc = "done"
    /\ Len(images) = 2
    /\ ServiceFailed(1)
    /\ ~Logged(2)
    /\ outcome[2] = "Finalized"
    /\ IsFile(PagePath(2))

\* C3: when process_page has returned, the page is either Finalized with a
\* non-empty markdown persisted at its output path, or Failed with the
\* output path as it was before the call (nothing created, nothing
\* modified) and the error logged.
C3_FinalizedOrUntouched ==
    pp.pc = "returned" =>
        \/ /\ outcome[pp.page] = "Finalized"
           /\ IsFile(pp.output_path)
           /\ fs[pp.output_path].data # <<>>
        \/ /\ outcome[pp.page] = "Failed"
           /\ At(pp.output_path) = pp.pre
           /\ Logged(pp.page)

\* The order of the stages of a page, with the one feedback round of range(1).
StageOrder == <<"ocr", "initial", "fb_gen", "fb_apply", "final", "write">>

\* C4: the stages of a page run in the order OCR, initial conversion,
\* feedback generation, feedback application, finalization, persist, none
\* skipped or repeated, and each is given what the one before it returned:
\* the initial conversion the OCR text, the feedback the OCR text and the
\* current markdown, the application the feedback and the current markdown,
\* the finalization the refined markdown, the write the formatted final text.
C4_StagesInOrder ==
    /\ Len(calls) <= Len(StageOrder)
    /\ \A k \in 1..Len(calls) : calls[k].stage = StageOrder[k]
    /\ (pp.pc = "returned" /\ outcome[pp.page] = "Finalized") => Len(calls) = Len(StageOrder)
    /\ Len(calls) >= 2 => calls[2].args[2] = <<"OCR Text:\n">> \o calls[1].response
    /\ Len(calls) >= 3 =>
          calls[3].args[1] = FeedbackPrompt(<<"OCR Text:\n">> \o calls[1].response,
                                            calls[2].response)
    /\ Len(calls) >= 4 =>
          calls[4].args[1] = ImprovePrompt(calls[3].response, calls[2].response)
    /\ Len(calls) >= 5 => calls[5].args[1] = FinalPrompt(calls[4].response)
    /\ Len(calls) >= 6 => calls[6].response = format_markdown(calls[5].response)

\* A page is Finalized after all six stages, and the feedback round changed
\* the markdown the initial conversion had produced.
C4_Witness ==
    /\ pp.pc = "returned"
    /\ outcome[pp.page] = "Finalized"
    /\ Len(calls) = 6
    /\ calls[4].response # calls[2].response
    /\ calls[1].response # <<>>

\* The calls of the current page that belong to the feedback stage.
FeedbackCalls == {k \in 1..Len(calls) : calls[k].stage \in {"fb_gen", "fb_apply"}}
FinalCalls == {k \in 1..Len(calls) : calls[k].stage = "final"}
InitialCalls == {k \in 1..Len(calls) : calls[k].stage = "initial"}

C6_EmptyOcrEmptyContent ==
    (Len(calls) >= 1 /\ calls[1].response = <<>>) =>
        /\ \A k \in InitialCalls :
              /\ calls[k].messages[2].content = <<>>
              /\ calls[k].messages[Len(calls[k].messages)].type = "image_url"
        /\ (pp.pc = "returned" /\ pp.error = "none") => outcome[pp.page] = "Finalized"

\* C6 amended: when OCR returns the empty string the page does not fail for
\* it: the initial conversion can be requested, its content text is the
\* label "OCR Text:" with nothing after it, the page image is its last
\* message, and the page is Finalized when nothing fails.
C6_EmptyOcrProceeds ==
    /\ (pp.pc = "initial" /\ pp.ocr_text = <<>>) => ENABLED InitialConversion
    /\ (Len(calls) >= 1 /\ calls[1].response = <<>>) =>
          /\ \A k \in InitialCalls :
                /\ calls[k].messages[2].content = <<"OCR Text:\n">>
                /\ Len(calls[k].messages) = 3
                /\ calls[k].messages[3].type = "image_url"
                /\ calls[k].messages[3].content =
                       <<"data:image/jpeg;base64,">> \o b64encode(fs[ImagePath(pp.page)].data)
          /\ (pp.pc = "returned" /\ pp.error = "none") =>
                outcome[pp.page] = "Finalized" /\ IsFile(PagePath(pp.page))

\* Page 2 of a document had an empty OCR text and is Finalized, after a
\* Finalized page 1.
C6_Witness ==
    /\ pp.pc = "returned"
    /\ pp.page = 2
    /\ pp.ocr_text = <<>>
    /\ InitialCalls # {}
    /\ outcome[1] = "Finalized"
    /\ outcome[2] = "Finalized"

\* The completion requests of the current page.
Requests == {k \in 1..Len(calls) : calls[k].fn = "groq_completion"}

\* C7: prepare_messages(X, Y, image) is <<(user, X), (user, Y), (user, image
\* attachment)>> in that order, <<(user, X), (user, Y)>> when the image is
\* omitted, and the same arguments give the same sequence.
C7_PrepareMessages ==
    /\ \A k \in Requests :
          LET X == calls[k].args[1]
              Y == calls[k].args[2]
              image == calls[k].args[3]
              m == calls[k].messages
          IN  /\ Len(m) = IF image = None THEN 2 ELSE 3
              /\ m[1] = [role |-> "user", type |-> "text", content |-> X]
              /\ m[2] = [role |-> "user", type |-> "text", content |-> Y]
              /\ image # None =>
                    /\ m[3].role = "user"
                    /\ m[3].type = "image_url"
                    /\ m[3].content = <<"data:image/jpeg;base64,",
                                        "b64(" \o fs[image].data[1] \o ")">>
    /\ \A j, k \in Requests :
          calls[j].args = calls[k].args => calls[j].messages = calls[k].messages

\* A page has sent a request with its image and a request without one.
C7_Witness ==
    /\ \E k \in Requests : calls[k].args[3] # None /\ Len(calls[k].messages) = 3
    /\ \E k \in Requests : calls[k].args[3] = None /\ Len(calls[k].messages) = 2

----------------------------------------------------------------------------
(* Properties of process_content and of the translation driver *)

\* C8: translation purity. From the call of process_content to its return,
\* however it ends, the markdown it translates is what it was at the call;
\* the translation goes to another path than the markdown, and on success
\* the translation is a file at that path.
C8_TranslationPurity ==
    tc.pc # "idle" =>
        /\ At(tc.text_file_path) = tc.md_before
        /\ tc.output_path # tc.text_file_path
        /\ (tc.pc = "returned" /\ tr_outcome[tc.filename] = "Translated") =>
              /\ IsFile(tc.output_path)
              /\ fs[tc.output_path].data = format_markdown(tc.translated_content)

\* A non-empty markdown has been translated into a non-empty translation.
C8_Witness ==
    /\ tc.pc = "returned"
    /\ tr_outcome[tc.filename] = "Translated"
    /\ tc.md_before.data # <<>>
    /\ fs[tc.output_path].data # <<>>

\* The translation of page k.
TranslationPath(k) == <<translations_path, PageFile(k, "md")>>

\* C9: translation failure isolation. Once the translation driver has
\* ended, every entry of the input directory has been visited, whatever
\* failed on another entry (unreadable file, name that is not page_<n>.md,
\* directory, completion, formatter or write failure), and no translation
\* exists for an entry whose translation failed.
C9_TranslationIsolation ==
    tr_pc \in {"done", "crashed"} =>
        \A f \in DOMAIN tr_outcome :
            /\ (\E g \in DOMAIN tr_outcome :
                    g # f /\ tr_outcome[g] \in {"Failed", "Crashed", "Skipped"})
                  => tr_outcome[f] # "none"
            /\ (tr_outcome[f] = "Failed" /\ Parses(f)) => At(OutputPath(f)) = Absent

\* C10: the translation of the markdown of page p is written only when the
\* refinement of p ended Finalized (and so persisted that markdown); a page
\* whose refinement ended Failed gets no translation.
C10_TranslationOnlyOfFinalized ==
    \A k \in 1..MaxPages :
        <<TranslationPath(k), PageFile(k, "md")>> \in tr_written
            => outcome[k] = "Finalized"

----------------------------------------------------------------------------
(* Properties of the drivers and of the calls a page makes *)

\* C11: when a document run over n pages has ended, every one of the n
\* pages has a recorded outcome, Finalized or Failed with its logged reason,
\* and neither driver has ended as one failure of the whole batch (an
\* exception that escaped main) because of a single page or entry.
C11_PerPageOutcome ==
    (app_pc \in {"done", "crashed"} /\ Len(images) > 0) =>
        /\ app_pc = "done"
        /\ tr_pc # "crashed"
        /\ \A k \in 1..Len(images) :
              /\ outcome[k] \in {"Finalized", "Failed"}
              /\ outcome[k] = "Failed" => Logged(k)

\* The stages of process_page in the order the code runs them.
Pipeline == <<"ocr", "initial", "fb_gen", "fb_apply", "final", "open", "format", "write">>

Rank(stage) == CHOOSE n \in 1..Len(Pipeline) : Pipeline[n] = stage

\* C12: Failed is terminal. Once a stage of the page's pipeline has raised,
\* process_page is in its handler or has returned, the calls it has issued
\* are those of the stages before the failed one and no other, and the
\* value it returns is the empty result.
C12_FailedIsTerminal ==
    pp.error # "none" =>
        /\ pp.pc \in {"except", "returned"}
        /\ \A k \in 1..Len(calls) : Rank(calls[k].stage) < Rank(pp.error)
        /\ pp.pc = "returned" => (pp.ret = <<>> /\ outcome[pp.page] = "Failed")

C12_Witness ==
    /\ pp.pc = "returned"
    /\ pp.error = "fb_apply"
    /\ Len(calls) = 3
    /\ pp.improved_markdown # <<>>
    /\ pp.ret = <<>>

\* C13: in every feedback round the apply-feedback request carries the page
\* image as its last message, with the feedback and the current markdown in
\* its content, and the generate-feedback request carries no image.
C13_ApplyFeedbackCarriesImage ==
    \A k \in 1..Len(calls) :
        LET m == calls[k].messages
        IN  /\ calls[k].stage = "fb_apply" =>
                 /\ m[Len(m)] = ImageMsg("user", encode_image_to_base64(pp.image_path))
                 /\ m[1].content = ImprovePrompt(calls[k - 1].response,
                                                 calls[k - 2].response)
            /\ calls[k].stage = "fb_gen" =>
                 \A n \in 1..Len(m) : m[n].type # "image_url"

\* C14: on every Finalized page the value process_page returns to its
\* caller is the value it persisted at the page's output path, and the
\* value process_content returns is the translation it persisted.
C14_ReturnsWhatItPersisted ==
    /\ (pp.pc = "returned" /\ outcome[pp.page] = "Finalized") =>
          (IsFile(pp.output_path) /\ fs[pp.output_path].data = pp.ret)
    /\ (tc.pc = "returned" /\ tr_outcome[tc.filename] = "Translated") =>
          (IsFile(tc.output_path) /\ fs[tc.output_path].data = tc.ret)

\* C15: the translation driver preserves page identity in whatever order
\* the input directory is listed. Every translation page_<n>.md that is
\* written is produced from the entry page_<n>.md (the markdown of page n,
\* with the image page_<n>.png that goes with it), and two distinct entries
\* never write the same translation path.
C15_PageIdentity ==
    /\ \A w \in tr_written :
          \E k \in 1..MaxPages :
              /\ w[1] = TranslationPath(k)
              /\ w[2] = PageFile(k, "md")
    /\ \A w1, w2 \in tr_written : w1[1] = w2[1] => w1[2] = w2[2]
    /\ \A k \in 1..Len(tr_calls) :
          tr_calls[k].args[3] = <<images_path, replace_md_png(tc.filename)>>

\* The image-attachment messages of a message sequence.
ImageMessages(m) == {n \in 1..Len(m) : m[n].type = "image_url"}

\* C16 as stated: every message sequence translate_text sends has the
\* translator instruction as a system message first, the markdown to
\* translate as the content message second and, when an image is given,
\* exactly one image-attachment message, in last position.
C16_ContentSecond ==
    \A k \in 1..Len(tr_calls) :
        LET m == tr_calls[k].messages
        IN  /\ m[1] = TextMsg("system", SystemPrompt)
            /\ m[2] = TextMsg("user", tr_calls[k].args[2])
            /\ tr_calls[k].args[3] # None =>
                  ImageMessages(m) = {Len(m)}

\* C16: every message sequence translate_text sends is four messages: the
\* translator instruction as a system message, the user prompt naming the
\* target language, the markdown read from the entry as the user content
\* message in third position, and the entry's image as the one
\* image-attachment message, in last position.
C16_TranslatorMessages ==
    \A k \in 1..Len(tr_calls) :
        LET m == tr_calls[k].messages
        IN  /\ Len(m) = 4
            /\ m[1] = TextMsg("system", SystemPrompt)
            /\ m[2] = TextMsg("user", TranslatePrompt(target_language))
            /\ m[3] = TextMsg("user", fs[tc.text_file_path].data)
            /\ m[4] = ImageMsg("user", encode_image_to_base64(tc.image_file_path))
            /\ ImageMessages(m) = {4}

C16_Witness ==
    /\ Len(tr_calls) = 1
    /\ tr_calls[1].args[2] # <<>>
    /\ tr_calls[1].args[3] = <<images_path, PageFile(1, "png")>>
    /\ tr_calls[1].response # <<>>

\* The calls of a stage process_page has issued for the current page: those
\* that returned, and the one that raised.
Issued(stage) ==
    Cardinality({k \in 1..Len(calls) : calls[k].stage = stage})
        + (IF pp.error = stage THEN 1 ELSE 0)

====
